---- MODULE Spec2Model ----
(***************************************************************************)
(* License entity, audit log and LicenseService of the licenses app.       *)
(* Stored rows are the database tables License and LicenseCheck; every     *)
(* operation loads a row into an in-memory object, runs the method on it   *)
(* and writes the object back only where the code calls save().            *)
(***************************************************************************)
EXTENDS Integers, Sequences, FiniteSets, TLC

\* ---------------------------------------------------------------- bounds
MaxTime == 3
MaxChecks == 2

\* ------------------------------------------------------------ value sets
\* null of a nullable DateTimeField
None == -1
\* null of a nullable CharField / argument default hardware_id=None
NoneStr == "<None>"

Keys == {"K1"}
LicenseTypeIds == {1, 2}
HardwareIds == {NoneStr, "abc123", "xyz789"}
Reasons == {NoneStr, "abuse"}

\* LicenseType.duration_days of the two stored license types (days)
duration_days(license_type) == license_type

\* Python truthiness of an optional string: None and '' are falsy
Truthy(s) == s # NoneStr /\ s # ""

\* ------------------------------------------------------------ key strings
\* A string is the sequence of its characters; a character is a one-element
\* name ("KELVIN" is U+212A, "LONG_S" is U+017F).
Rep(c, n) == [i \in 1..n |-> c]

ascii_uppercase ==
    {"A","B","C","D","E","F","G","H","I","J","K","L","M",
     "N","O","P","Q","R","S","T","U","V","W","X","Y","Z"}
digits == {"0","1","2","3","4","5","6","7","8","9"}

\* str.upper() on one character
upper(c) ==
    CASE c = "a" -> "A" [] c = "b" -> "B" [] c = "c" -> "C" [] c = "d" -> "D"
      [] c = "e" -> "E" [] c = "f" -> "F" [] c = "g" -> "G" [] c = "h" -> "H"
      [] c = "i" -> "I" [] c = "j" -> "J" [] c = "k" -> "K" [] c = "l" -> "L"
      [] c = "m" -> "M" [] c = "n" -> "N" [] c = "o" -> "O" [] c = "p" -> "P"
      [] c = "q" -> "Q" [] c = "r" -> "R" [] c = "s" -> "S" [] c = "t" -> "T"
      [] c = "u" -> "U" [] c = "v" -> "V" [] c = "w" -> "W" [] c = "x" -> "X"
      [] c = "y" -> "Y" [] c = "z" -> "Z" [] c = "LONG_S" -> "S" [] OTHER -> c

\* str.lower() on one character
lower(c) ==
    CASE c = "A" -> "a" [] c = "B" -> "b" [] c = "C" -> "c" [] c = "D" -> "d"
      [] c = "E" -> "e" [] c = "F" -> "f" [] c = "G" -> "g" [] c = "H" -> "h"
      [] c = "I" -> "i" [] c = "J" -> "j" [] c = "K" -> "k" [] c = "L" -> "l"
      [] c = "M" -> "m" [] c = "N" -> "n" [] c = "O" -> "o" [] c = "P" -> "p"
      [] c = "Q" -> "q" [] c = "R" -> "r" [] c = "S" -> "s" [] c = "T" -> "t"
      [] c = "U" -> "u" [] c = "V" -> "v" [] c = "W" -> "w" [] c = "X" -> "x"
      [] c = "Y" -> "y" [] c = "Z" -> "z" [] c = "KELVIN" -> "k" [] OTHER -> c

\* key.replace('-', '').upper()
key_clean(text) ==
    LET stripped == SelectSeq(text, LAMBDA c : c # "-")
    IN  [i \in DOMAIN stripped |-> upper(stripped[i])]

MinKeyLen == 20
MaxKeyLen == 30

\* utils.validate_license_key_format
validate_license_key_format(text) ==
    LET clean == key_clean(text)
    IN  /\ \A i \in DOMAIN clean : clean[i] \in ascii_uppercase \cup digits
        /\ MinKeyLen <= Len(clean)
        /\ Len(clean) <= MaxKeyLen

\* number of characters of the base-32 digest kept in a key
KeyChars == 25
\* characters per dash-separated block
BlockLen == 5

\* '-'.join([key[i:i+5] for i in range(0, len(key), 5)])
RECURSIVE JoinBlocks(_)
JoinBlocks(key) ==
    IF Len(key) <= BlockLen THEN key
    ELSE SubSeq(key, 1, BlockLen) \o <<"-">> \o JoinBlocks(SubSeq(key, BlockLen + 1, Len(key)))

\* utils.generate_license_key: key_b64 is the base-32 text of the SHA-256
\* digest of the signed token; prefix is <<>> when absent or empty
generate_license_key(prefix, key_b64) ==
    LET key == [i \in 1..KeyChars |-> upper(key_b64[i])]
    IN  JoinBlocks(IF prefix # <<>> THEN prefix \o <<"-">> \o key ELSE key)

\* base64.b32encode of a 32-byte digest: 52 characters of A-Z2-7 and '===='
Digest1 == Rep("A", 5) \o Rep("B", 5) \o Rep("2", 5) \o Rep("C", 5) \o Rep("7", 5)
           \o Rep("Q", 27) \o Rep("=", 4)
Digest2 == Rep("Z", 5) \o Rep("3", 5) \o Rep("Q", 5) \o Rep("X", 5) \o Rep("4", 5)
           \o Rep("M", 27) \o Rep("=", 4)
B32Digests == {Digest1, Digest2}

\* The characters of each key string the model uses: K1 and K2 are keys
\* generated without a prefix, PK is generated with the prefix PREMIUM, and
\* "short" is a string a caller typed.
KeyText(key) ==
    CASE key = "K1" -> generate_license_key(<<>>, Digest1)
      [] key = "K2" -> generate_license_key(<<>>, Digest2)
      [] key = "PK" -> generate_license_key(<<"P", "R", "E", "M", "I", "U", "M">>, Digest1)
      [] key = "short" -> Rep("A", 5) \o <<"-">> \o Rep("B", 5)
      [] OTHER -> <<>>

KeyArgs == Keys \cup {"short"}
\* keys of licenses created with the prefix PREMIUM
PrefixedKeys == {"PK"}

\* validate_license_key_format applied to each key string the model uses
KeyFormatValid ==
    [key \in KeyArgs \cup PrefixedKeys |-> validate_license_key_format(KeyText(key))]

\* licenses, checks: the License and LicenseCheck tables; now: the clock;
\* call: the Service or entity call that just returned; codec: the key codec
\* call that just returned; procs: the Service calls in progress, each with
\* the License object it loaded.
VARIABLES licenses, checks, now, call, codec, procs

vars == <<licenses, checks, now, call, codec, procs>>

\* ------------------------------------------------------------ audit rows
\* LicenseCheck.objects.create(license=self, status=..., message=..., hardware_id=...)
LicenseCheck(status, message, hardware_id, t) ==
    [status |-> status, message |-> message, hardware_id |-> hardware_id]

\* save() without the "Check if expired" step
save_NoExpiry(self, t) ==
    IF self.expires_at = None
    THEN [self EXCEPT !.expires_at =
              (IF self.activation_date # None THEN self.activation_date ELSE t)
              + duration_days(self.license_type)]
    ELSE self

\* save() without the exemption of 'revoked' from expiry
save_ExpiresRevoked(self, t) ==
    LET s1 == IF self.expires_at = None
              THEN [self EXCEPT !.expires_at =
                        (IF self.activation_date # None THEN self.activation_date ELSE t)
                        + duration_days(self.license_type)]
              ELSE self
    IN  IF s1.expires_at # None /\ s1.expires_at < t
        THEN [s1 EXCEPT !.status = "expired"]
        ELSE s1

\* ------------------------------------------------------------ License.save
save(self, t) ==
    LET s1 == IF self.expires_at = None
              THEN [self EXCEPT !.expires_at =
                        (IF self.activation_date # None THEN self.activation_date ELSE t)
                        + duration_days(self.license_type)]
              ELSE self
        s2 == IF s1.expires_at # None /\ s1.expires_at < t /\ s1.status # "revoked"
              THEN [s1 EXCEPT !.status = "expired"]
              ELSE s1
    IN  s2

\* Result of an entity method: the in-memory object afterwards, whether the
\* method wrote it to the row, the audit rows it created, its return value.
Outcome(self, saved, log, ret) == [self |-> self, saved |-> saved, log |-> log, ret |-> ret]

\* activate() without the guard on 'revoked'
activate_NoRevokedGuard(self, hardware_id, t) ==
    LET a == [self EXCEPT !.status = "active",
                          !.activation_date = t,
                          !.expires_at = t + duration_days(self.license_type),
                          !.hardware_id = IF Truthy(hardware_id) THEN hardware_id ELSE @]
    IN  Outcome(save(a, t), TRUE, <<LicenseCheck("activated", <<>>, hardware_id, t)>>, TRUE)

\* activate() that keeps an activation_date already set
activate_KeepActivationDate(self, hardware_id, t) ==
    IF self.status # "revoked"
    THEN LET d == IF self.activation_date # None THEN self.activation_date ELSE t
             a == [self EXCEPT !.status = "active",
                               !.activation_date = d,
                               !.expires_at = d + duration_days(self.license_type),
                               !.hardware_id = IF Truthy(hardware_id) THEN hardware_id ELSE @]
         IN  Outcome(save(a, t), TRUE, <<LicenseCheck("activated", <<>>, hardware_id, t)>>, TRUE)
    ELSE Outcome(self, FALSE, <<>>, FALSE)

\* activate() without the assignment to expires_at
activate_NoExpiryRecompute(self, hardware_id, t) ==
    IF self.status # "revoked"
    THEN LET a == [self EXCEPT !.status = "active",
                               !.activation_date = t,
                               !.hardware_id = IF Truthy(hardware_id) THEN hardware_id ELSE @]
         IN  Outcome(save(a, t), TRUE, <<LicenseCheck("activated", <<>>, hardware_id, t)>>, TRUE)
    ELSE Outcome(self, FALSE, <<>>, FALSE)

\* activate() that assigns hardware_id also when none is presented
activate_AlwaysAssignsHardware(self, hardware_id, t) ==
    IF self.status # "revoked"
    THEN LET a == [self EXCEPT !.status = "active",
                               !.activation_date = t,
                               !.expires_at = t + duration_days(self.license_type),
                               !.hardware_id = hardware_id]
         IN  Outcome(save(a, t), TRUE, <<LicenseCheck("activated", <<>>, hardware_id, t)>>, TRUE)
    ELSE Outcome(self, FALSE, <<>>, FALSE)

\* ------------------------------------------------------------ License.activate
activate(self, hardware_id, t) ==
    IF self.status # "revoked"
    THEN LET a == [self EXCEPT !.status = "active",
                               !.activation_date = t,
                               !.expires_at = t + duration_days(self.license_type),
                               !.hardware_id = IF Truthy(hardware_id) THEN hardware_id ELSE @]
         IN  Outcome(save(a, t), TRUE, <<LicenseCheck("activated", <<>>, hardware_id, t)>>, TRUE)
    ELSE Outcome(self, FALSE, <<>>, FALSE)

\* deactivate() without the assignment to status
deactivate_NoStatusChange(self, t) ==
    IF self.status = "active"
    THEN Outcome(save(self, t), TRUE, <<LicenseCheck("deactivated", <<>>, NoneStr, t)>>, TRUE)
    ELSE Outcome(self, FALSE, <<>>, FALSE)

\* deactivate() without the LicenseCheck row
deactivate_NoAudit(self, t) ==
    IF self.status = "active"
    THEN Outcome(save([self EXCEPT !.status = "pending"], t), TRUE, <<>>, TRUE)
    ELSE Outcome(self, FALSE, <<>>, FALSE)

\* deactivate() that also releases the hardware binding
deactivate_Unbinds(self, t) ==
    IF self.status = "active"
    THEN Outcome(save([self EXCEPT !.status = "pending", !.hardware_id = NoneStr], t), TRUE,
                 <<LicenseCheck("deactivated", <<>>, NoneStr, t)>>, TRUE)
    ELSE Outcome(self, FALSE, <<>>, FALSE)

\* ------------------------------------------------------------ License.deactivate
deactivate(self, t) ==
    IF self.status = "active"
    THEN Outcome(save([self EXCEPT !.status = "pending"], t), TRUE,
                 <<LicenseCheck("deactivated", <<>>, NoneStr, t)>>, TRUE)
    ELSE Outcome(self, FALSE, <<>>, FALSE)

\* revoke() that refuses a license already revoked
revoke_Guarded(self, t) ==
    IF self.status # "revoked"
    THEN Outcome(save([self EXCEPT !.status = "revoked"], t), TRUE,
                 <<LicenseCheck("revoked", <<>>, NoneStr, t)>>, TRUE)
    ELSE Outcome(self, FALSE, <<>>, FALSE)

\* ------------------------------------------------------------ License.revoke
revoke(self, t) ==
    Outcome(save([self EXCEPT !.status = "revoked"], t), TRUE,
            <<LicenseCheck("revoked", <<>>, NoneStr, t)>>, TRUE)

\* validate_license() without the hardware id comparison
validate_license_NoHardwareCheck(self, hardware_id, t) ==
    LET s == [self EXCEPT !.last_checked = t]
    IN  IF s.expires_at # None /\ s.expires_at < t
        THEN Outcome(save([s EXCEPT !.status = "expired"], t), TRUE,
                     <<LicenseCheck("check_failed", <<"License expired">>, hardware_id, t)>>, FALSE)
        ELSE IF s.status # "active"
        THEN Outcome(s, FALSE,
                     <<LicenseCheck("check_failed", <<"License not active, status: ", s.status>>,
                                    hardware_id, t)>>, FALSE)
        ELSE Outcome(save(s, t), TRUE,
                     <<LicenseCheck("check_success", <<>>, hardware_id, t)>>, TRUE)

\* validate_license() that counts a license as expired at its expiry date
validate_license_ExpiryInclusive(self, hardware_id, t) ==
    LET s == [self EXCEPT !.last_checked = t]
    IN  IF s.expires_at # None /\ s.expires_at <= t
        THEN Outcome(save([s EXCEPT !.status = "expired"], t), TRUE,
                     <<LicenseCheck("check_failed", <<"License expired">>, hardware_id, t)>>, FALSE)
        ELSE IF s.status # "active"
        THEN Outcome(s, FALSE,
                     <<LicenseCheck("check_failed", <<"License not active, status: ", s.status>>,
                                    hardware_id, t)>>, FALSE)
        ELSE IF Truthy(hardware_id) /\ Truthy(s.hardware_id) /\ hardware_id # s.hardware_id
        THEN Outcome(s, FALSE,
                     <<LicenseCheck("check_failed", <<"Hardware ID mismatch">>, hardware_id, t)>>,
                     FALSE)
        ELSE Outcome(save(s, t), TRUE,
                     <<LicenseCheck("check_success", <<>>, hardware_id, t)>>, TRUE)

\* validate_license() that compares the hardware id before it looks at the
\* expiry date and the status
validate_license_HardwareFirst(self, hardware_id, t) ==
    LET s == [self EXCEPT !.last_checked = t]
    IN  IF Truthy(hardware_id) /\ Truthy(s.hardware_id) /\ hardware_id # s.hardware_id
        THEN Outcome(s, FALSE,
                     <<LicenseCheck("check_failed", <<"Hardware ID mismatch">>, hardware_id, t)>>,
                     FALSE)
        ELSE IF s.expires_at # None /\ s.expires_at < t
        THEN Outcome(save([s EXCEPT !.status = "expired"], t), TRUE,
                     <<LicenseCheck("check_failed", <<"License expired">>, hardware_id, t)>>, FALSE)
        ELSE IF s.status # "active"
        THEN Outcome(s, FALSE,
                     <<LicenseCheck("check_failed", <<"License not active, status: ", s.status>>,
                                    hardware_id, t)>>, FALSE)
        ELSE Outcome(save(s, t), TRUE,
                     <<LicenseCheck("check_success", <<>>, hardware_id, t)>>, TRUE)

\* ------------------------------------------------------------ License.validate_license
validate_license(self, hardware_id, t) ==
    LET s == [self EXCEPT !.last_checked = t]
    IN  IF s.expires_at # None /\ s.expires_at < t
        THEN Outcome(save([s EXCEPT !.status = "expired"], t), TRUE,
                     <<LicenseCheck("check_failed", <<"License expired">>, hardware_id, t)>>, FALSE)
        ELSE IF s.status # "active"
        THEN Outcome(s, FALSE,
                     <<LicenseCheck("check_failed", <<"License not active, status: ", s.status>>,
                                    hardware_id, t)>>, FALSE)
        ELSE IF Truthy(hardware_id) /\ Truthy(s.hardware_id) /\ hardware_id # s.hardware_id
        THEN Outcome(s, FALSE,
                     <<LicenseCheck("check_failed", <<"Hardware ID mismatch">>, hardware_id, t)>>,
                     FALSE)
        ELSE Outcome(save(s, t), TRUE,
                     <<LicenseCheck("check_success", <<>>, hardware_id, t)>>, TRUE)

\* ------------------------------------------------------------ the store
\* License.objects.create(...) with status defaulting to 'active'
NewLicense_DefaultActive(key, license_type, max_activations, notes, t) ==
    save([key |-> key, license_type |-> license_type, status |-> "active",
          created_at |-> t, expires_at |-> None,
          last_checked |-> None, activation_date |-> None,
          hardware_id |-> NoneStr, max_activations |-> max_activations,
          notes |-> notes], t)

\* License.objects.create(key=..., license_type=..., max_activations=..., notes=...)
NewLicense(key, license_type, max_activations, notes, t) ==
    save([key |-> key, license_type |-> license_type, status |-> "pending",
          created_at |-> t, expires_at |-> None,
          last_checked |-> None, activation_date |-> None,
          hardware_id |-> NoneStr, max_activations |-> max_activations,
          notes |-> notes], t)

\* placeholder for "no row loaded" in the call record
NoLicense ==
    [key |-> NoneStr, license_type |-> 0, status |-> NoneStr,
     created_at |-> None, expires_at |-> None,
     last_checked |-> None, activation_date |-> None,
     hardware_id |-> NoneStr, max_activations |-> 0, notes |-> <<>>]

Exists(key) == key \in DOMAIN licenses

\* rows in the LicenseCheck table
RECURSIVE NChecks(_)
NChecks(ks) == IF ks = {} THEN 0
               ELSE LET k == CHOOSE x \in ks : TRUE
                    IN  Len(checks[k]) + NChecks(ks \ {k})

\* Store() that puts new audit rows in front of the old ones
Store_Prepend(key, o) ==
    /\ NChecks(DOMAIN checks) + Len(o.log) <= MaxChecks
    /\ licenses' = IF o.saved THEN [licenses EXCEPT ![key] = o.self] ELSE licenses
    /\ checks' = [checks EXCEPT ![key] = o.log \o @]

\* The row and its audit rows after an entity method returned outcome o
Store(key, o) ==
    /\ NChecks(DOMAIN checks) + Len(o.log) <= MaxChecks
    /\ licenses' = IF o.saved THEN [licenses EXCEPT ![key] = o.self] ELSE licenses
    /\ checks' = [checks EXCEPT ![key] = @ \o o.log]

\* The record of the call just made: operation, arguments, the row as loaded,
\* and what the call returned.
Call(op, key, hardware_id, reason, success, message, raised, saved) ==
    [op |-> op, key |-> key, hardware_id |-> hardware_id, reason |-> reason,
     before |-> IF Exists(key) THEN licenses[key] ELSE NoLicense,
     nchecks |-> IF Exists(key) THEN Len(checks[key]) ELSE 0,
     success |-> success, message |-> message, raised |-> raised, saved |-> saved]

\* no call has returned at the current time
NoCall ==
    [op |-> "none", key |-> NoneStr, hardware_id |-> NoneStr, reason |-> NoneStr,
     before |-> NoLicense, nchecks |-> 0,
     success |-> FALSE, message |-> <<>>, raised |-> FALSE, saved |-> FALSE]

\* no codec function has been called
NoCodec == [op |-> "none", prefix |-> <<>>, key |-> <<>>, valid |-> FALSE,
            valid_nodash |-> FALSE, valid_upper |-> FALSE, valid_lower |-> FALSE]

Procs == {1, 2}

\* a worker that is not inside a Service call
Idle == [pc |-> "idle", op |-> "none", key |-> NoneStr, hardware_id |-> NoneStr,
         obj |-> NoLicense, nchecks |-> 0, success |-> FALSE, message |-> <<>>]

Init ==
    /\ licenses = <<>>
    /\ checks = <<>>
    /\ now = 0
    /\ call = NoCall
    /\ codec = NoCodec
    /\ procs = [p \in Procs |-> Idle]

\* timezone.now() moves on between calls
Tick ==
    /\ now < MaxTime
    /\ now' = now + 1
    /\ call' = NoCall
    /\ UNCHANGED <<licenses, checks, codec, procs>>

\* ------------------------------------------------------------ entity calls
\* (the admin actions and any caller holding a freshly loaded License)
EntityActivate(key, hardware_id) ==
    /\ Exists(key)
    /\ LET o == activate(licenses[key], hardware_id, now)
       IN  /\ Store(key, o)
           /\ call' = Call("entity_activate", key, hardware_id, NoneStr, o.ret, <<>>, FALSE, o.saved)
    /\ UNCHANGED <<now, codec, procs>>

EntityDeactivate(key) ==
    /\ Exists(key)
    /\ LET o == deactivate(licenses[key], now)
       IN  /\ Store(key, o)
           /\ call' = Call("entity_deactivate", key, NoneStr, NoneStr, o.ret, <<>>, FALSE, o.saved)
    /\ UNCHANGED <<now, codec, procs>>

EntityRevoke(key) ==
    /\ Exists(key)
    /\ LET o == revoke(licenses[key], now)
       IN  /\ Store(key, o)
           /\ call' = Call("entity_revoke", key, NoneStr, NoneStr, o.ret, <<>>, FALSE, o.saved)
    /\ UNCHANGED <<now, codec, procs>>

EntityValidate(key, hardware_id) ==
    /\ Exists(key)
    /\ LET o == validate_license(licenses[key], hardware_id, now)
       IN  /\ Store(key, o)
           /\ call' = Call("entity_validate", key, hardware_id, NoneStr, o.ret, <<>>, FALSE, o.saved)
    /\ UNCHANGED <<now, codec, procs>>

\* ------------------------------------------------------------ LicenseService
StoredTypeIds == LicenseTypeIds
TypeIdArgs == LicenseTypeIds \cup {3}
NotesArgs == {<<>>}
\* LicenseType.name of the stored license types
TypeName(license_type) == IF license_type = 1 THEN "Basic" ELSE "Pro"

\* str(license_type_id) inside the f-string of the error message
TypeIdText(license_type_id) ==
    CASE license_type_id = 1 -> "1" [] license_type_id = 2 -> "2" [] OTHER -> "3"

\* create_license() on a key column without unique=True
ServiceCreate_NoUnique(license_type_id, key, notes) ==
    /\ IF license_type_id \notin StoredTypeIds
       THEN /\ call' = Call("create", NoneStr, NoneStr, NoneStr, FALSE,
                            <<"License type with ID ", TypeIdText(license_type_id), " does not exist">>, TRUE, FALSE)
            /\ UNCHANGED <<licenses, checks>>
       ELSE /\ licenses' = (key :> NewLicense(key, license_type_id, 1, notes, now)) @@ licenses
            /\ checks' = (key :> <<>>) @@ checks
            /\ call' = Call("create", key, NoneStr, NoneStr, TRUE, <<>>, FALSE, TRUE)
    /\ UNCHANGED <<now, codec, procs>>

\* LicenseService.create_license; key is the string generate_license_key returned
ServiceCreate(license_type_id, key, notes) ==
    /\ IF license_type_id \notin StoredTypeIds
       THEN \* LicenseType.DoesNotExist -> raise ValueError
            /\ call' = Call("create", NoneStr, NoneStr, NoneStr, FALSE,
                            <<"License type with ID ", TypeIdText(license_type_id), " does not exist">>, TRUE, FALSE)
            /\ UNCHANGED <<licenses, checks>>
       ELSE IF Exists(key)
       THEN \* unique=True on key: IntegrityError -> raise Exception
            /\ call' = Call("create", key, NoneStr, NoneStr, FALSE,
                            <<"Failed to create license: ", "IntegrityError">>, TRUE, FALSE)
            /\ UNCHANGED <<licenses, checks>>
       ELSE /\ licenses' = (key :> NewLicense(key, license_type_id, 1, notes, now)) @@ licenses
            /\ checks' = (key :> <<>>) @@ checks
            /\ call' = Call("create", key, NoneStr, NoneStr, TRUE, <<>>, FALSE, TRUE)
    /\ UNCHANGED <<now, codec, procs>>

\* License.DoesNotExist left to propagate to the caller
NotFound_Raises(op, key, hardware_id, reason) ==
    /\ call' = Call(op, key, hardware_id, reason, FALSE, <<"License key does not exist">>, TRUE, FALSE)
    /\ UNCHANGED <<licenses, checks>>

\* except License.DoesNotExist: the not-found result
NotFound(op, key, hardware_id, reason) ==
    /\ call' = Call(op, key, hardware_id, reason, FALSE, <<"License key does not exist">>, FALSE, FALSE)
    /\ UNCHANGED <<licenses, checks>>

\* a Service call that returns a failure result before any entity method ran
Refuse(op, key, hardware_id, reason, message) ==
    /\ call' = Call(op, key, hardware_id, reason, FALSE, message, FALSE, FALSE)
    /\ UNCHANGED <<licenses, checks>>

\* validate_license() that reports the status it loaded, not the status after
\* the check
ServiceValidate_StaleStatus(key, hardware_id) ==
    /\ IF ~KeyFormatValid[key]
       THEN Refuse("validate", key, hardware_id, NoneStr, <<"Invalid license key format">>)
       ELSE IF ~Exists(key)
       THEN NotFound("validate", key, hardware_id, NoneStr)
       ELSE LET o == validate_license(licenses[key], hardware_id, now)
            IN  /\ Store(key, o)
                /\ call' = IF ~o.ret
                           THEN Call("validate", key, hardware_id, NoneStr, FALSE,
                                     <<"License check failed: ", licenses[key].status>>, FALSE, o.saved)
                           ELSE Call("validate", key, hardware_id, NoneStr, TRUE,
                                     <<"License is valid">>, FALSE, o.saved)
    /\ UNCHANGED <<now, codec, procs>>

\* validate_license() that looks the license up and checks it before it looks
\* at the key's format
ServiceValidate_LookupFirst(key, hardware_id) ==
    /\ IF ~Exists(key)
       THEN IF ~KeyFormatValid[key]
            THEN Refuse("validate", key, hardware_id, NoneStr, <<"Invalid license key format">>)
            ELSE NotFound("validate", key, hardware_id, NoneStr)
       ELSE LET o == validate_license(licenses[key], hardware_id, now)
            IN  /\ Store(key, o)
                /\ call' = IF ~KeyFormatValid[key]
                           THEN Call("validate", key, hardware_id, NoneStr, FALSE,
                                     <<"Invalid license key format">>, FALSE, o.saved)
                           ELSE IF ~o.ret
                           THEN Call("validate", key, hardware_id, NoneStr, FALSE,
                                     <<"License check failed: ", o.self.status>>, FALSE, o.saved)
                           ELSE Call("validate", key, hardware_id, NoneStr, TRUE,
                                     <<"License is valid">>, FALSE, o.saved)
    /\ UNCHANGED <<now, codec, procs>>

\* LicenseService.validate_license
ServiceValidate(key, hardware_id) ==
    /\ IF ~KeyFormatValid[key]
       THEN Refuse("validate", key, hardware_id, NoneStr, <<"Invalid license key format">>)
       ELSE IF ~Exists(key)
       THEN NotFound("validate", key, hardware_id, NoneStr)
       ELSE LET o == validate_license(licenses[key], hardware_id, now)
            IN  /\ Store(key, o)
                /\ call' = IF ~o.ret
                           THEN Call("validate", key, hardware_id, NoneStr, FALSE,
                                     <<"License check failed: ", o.self.status>>, FALSE, o.saved)
                           ELSE Call("validate", key, hardware_id, NoneStr, TRUE,
                                     <<"License is valid">>, FALSE, o.saved)
    /\ UNCHANGED <<now, codec, procs>>

\* activate_license() without the test for 'expired'
ServiceActivate_NoExpiredGuard(key, hardware_id) ==
    /\ IF ~Exists(key)
       THEN NotFound("activate", key, hardware_id, NoneStr)
       ELSE IF licenses[key].status = "active"
       THEN Refuse("activate", key, hardware_id, NoneStr, <<"License is already active">>)
       ELSE IF licenses[key].status = "revoked"
       THEN Refuse("activate", key, hardware_id, NoneStr,
                   <<"License has been revoked and cannot be activated">>)
       ELSE LET o == activate(licenses[key], hardware_id, now)
            IN  /\ Store(key, o)
                /\ call' = IF ~o.ret
                           THEN Call("activate", key, hardware_id, NoneStr, FALSE,
                                     <<"Failed to activate license">>, FALSE, o.saved)
                           ELSE Call("activate", key, hardware_id, NoneStr, TRUE,
                                     <<"License activated successfully">>, FALSE, o.saved)
    /\ UNCHANGED <<now, codec, procs>>

\* LicenseService.activate_license
ServiceActivate(key, hardware_id) ==
    /\ IF ~Exists(key)
       THEN NotFound("activate", key, hardware_id, NoneStr)
       ELSE IF licenses[key].status = "active"
       THEN Refuse("activate", key, hardware_id, NoneStr, <<"License is already active">>)
       ELSE IF licenses[key].status = "revoked"
       THEN Refuse("activate", key, hardware_id, NoneStr,
                   <<"License has been revoked and cannot be activated">>)
       ELSE IF licenses[key].status = "expired"
       THEN Refuse("activate", key, hardware_id, NoneStr,
                   <<"License has expired and cannot be activated">>)
       ELSE LET o == activate(licenses[key], hardware_id, now)
            IN  /\ Store(key, o)
                /\ call' = IF ~o.ret
                           THEN Call("activate", key, hardware_id, NoneStr, FALSE,
                                     <<"Failed to activate license">>, FALSE, o.saved)
                           ELSE Call("activate", key, hardware_id, NoneStr, TRUE,
                                     <<"License activated successfully">>, FALSE, o.saved)
    /\ UNCHANGED <<now, codec, procs>>

\* LicenseService.deactivate_license
ServiceDeactivate(key) ==
    /\ IF ~Exists(key)
       THEN NotFound("deactivate", key, NoneStr, NoneStr)
       ELSE IF licenses[key].status # "active"
       THEN Refuse("deactivate", key, NoneStr, NoneStr,
                   <<"License is not active (current status: ", licenses[key].status, ")">>)
       ELSE LET o == deactivate(licenses[key], now)
            IN  /\ Store(key, o)
                /\ call' = IF ~o.ret
                           THEN Call("deactivate", key, NoneStr, NoneStr, FALSE,
                                     <<"Failed to deactivate license">>, FALSE, o.saved)
                           ELSE Call("deactivate", key, NoneStr, NoneStr, TRUE,
                                     <<"License deactivated successfully">>, FALSE, o.saved)
    /\ UNCHANGED <<now, codec, procs>>

\* license.notes = f"{license.notes or ''}\nRevoked: {reason}"; notes are kept
\* as the sequence of their lines
with_reason(self, reason) == [self EXCEPT !.notes = @ \o <<"Revoked: ", reason>>]

\* revoke_license() that tests 'already revoked' after license.revoke()
ServiceRevoke_GuardAfter(key, reason) ==
    /\ IF ~Exists(key)
       THEN NotFound("revoke", key, NoneStr, reason)
       ELSE LET o == revoke(licenses[key], now)
            IN  /\ Store(key, o)
                /\ call' = IF licenses[key].status = "revoked"
                           THEN Call("revoke", key, NoneStr, reason, FALSE,
                                     <<"License is already revoked">>, FALSE, o.saved)
                           ELSE Call("revoke", key, NoneStr, reason, TRUE,
                                     <<"License revoked successfully">>, FALSE, o.saved)
    /\ UNCHANGED <<now, codec, procs>>

\* LicenseService.revoke_license
ServiceRevoke(key, reason) ==
    /\ IF ~Exists(key)
       THEN NotFound("revoke", key, NoneStr, reason)
       ELSE IF licenses[key].status = "revoked"
       THEN Refuse("revoke", key, NoneStr, reason, <<"License is already revoked">>)
       ELSE LET o == revoke(licenses[key], now)
                w == IF Truthy(reason)
                     THEN Outcome(save(with_reason(o.self, reason), now), TRUE, o.log, o.ret)
                     ELSE o
            IN  /\ Store(key, w)
                /\ call' = Call("revoke", key, NoneStr, reason, TRUE,
                                <<"License revoked successfully">>, FALSE, w.saved)
    /\ UNCHANGED <<now, codec, procs>>

\* get_license_info() that saves the license it read
ServiceInfo_Saves(key) ==
    /\ IF ~Exists(key)
       THEN NotFound("info", key, NoneStr, NoneStr)
       ELSE /\ Store(key, Outcome(save(licenses[key], now), TRUE, <<>>, TRUE))
            /\ call' = Call("info", key, NoneStr, NoneStr, TRUE, <<>>, FALSE, FALSE)
    /\ UNCHANGED <<now, codec, procs>>

\* LicenseService.get_license_info
ServiceInfo(key) ==
    /\ IF ~Exists(key)
       THEN NotFound("info", key, NoneStr, NoneStr)
       ELSE /\ call' = Call("info", key, NoneStr, NoneStr, TRUE, <<>>, FALSE, FALSE)
            /\ UNCHANGED <<licenses, checks>>
    /\ UNCHANGED <<now, codec, procs>>

\* callers that use LicenseService only (no entity method called directly)
NextService ==
    \/ Tick
    \/ \E license_type_id \in TypeIdArgs, key \in Keys, notes \in NotesArgs :
            ServiceCreate(license_type_id, key, notes)
    \/ \E key \in KeyArgs, hardware_id \in HardwareIds : ServiceValidate(key, hardware_id)
    \/ \E key \in Keys, hardware_id \in HardwareIds : ServiceActivate(key, hardware_id)
    \/ \E key \in Keys : ServiceDeactivate(key)
    \/ \E key \in Keys, reason \in Reasons : ServiceRevoke(key, reason)
    \/ \E key \in Keys : ServiceInfo(key)

SpecService == Init /\ [][NextService]_vars

\* the Service on licenses created with a prefix: create_license(prefix='PREMIUM')
\* stores the key generate_license_key returns for that prefix
NextPrefixed ==
    \/ Tick
    \/ \E license_type_id \in TypeIdArgs, key \in PrefixedKeys, notes \in NotesArgs :
            ServiceCreate(license_type_id, key, notes)
    \/ \E key \in PrefixedKeys, hardware_id \in HardwareIds : ServiceValidate(key, hardware_id)
    \/ \E key \in PrefixedKeys, hardware_id \in HardwareIds : ServiceActivate(key, hardware_id)
    \/ \E key \in PrefixedKeys : ServiceDeactivate(key)
    \/ \E key \in PrefixedKeys, reason \in Reasons : ServiceRevoke(key, reason)

SpecPrefixed == Init /\ [][NextPrefixed]_vars

\* ------------------------------------------------------------ one save()
\* License.save() as the one write of any License object: the entity methods
\* and the admin's change form (status, expires_at, activation_date editable)
\* hand it objects with any combination of these fields.
Statuses == {"pending", "active", "expired", "revoked"}
Dates == {None} \cup (0..MaxTime)

SaveObjects ==
    {[NoLicense EXCEPT !.key = "K1", !.license_type = license_type, !.status = status,
                       !.created_at = 0, !.expires_at = expires_at,
                       !.activation_date = activation_date, !.max_activations = 1] :
        license_type \in LicenseTypeIds, status \in Statuses,
        expires_at \in Dates, activation_date \in Dates}

\* an object about to be saved at some time; call.before is the object in
\* memory, not yet a stored row
InitSave ==
    /\ licenses = <<>>
    /\ checks = <<>>
    /\ now \in 0..MaxTime
    /\ \E self \in SaveObjects : call = [NoCall EXCEPT !.op = "call save", !.key = self.key,
                                                       !.before = self]
    /\ codec = NoCodec
    /\ procs = [p \in Procs |-> Idle]

\* self.save(): the row written is what save() made of the object
SaveWrite ==
    /\ call.op = "call save"
    /\ licenses' = (call.key :> save(call.before, now))
    /\ checks' = (call.key :> <<>>)
    /\ call' = [call EXCEPT !.op = "save", !.success = TRUE, !.saved = TRUE]
    /\ UNCHANGED <<now, codec, procs>>

NextSave == SaveWrite

SpecSave == InitSave /\ [][NextSave]_vars

\* ------------------------------------------------------------ search_licenses
\* Two licenses, so that a search can return some and not others. A license's
\* owner is given at create_license(user=...) and never changed.
SearchKeys == {"K1", "K2"}
SearchNotes == {<<>>, <<"V", "I", "P">>}
\* license.user.username; <<>> for a license without a user
UserName(key) == IF key = "K2" THEN <<"a", "l", "i", "c", "e">> ELSE <<>>

\* the arguments callers pass; <<>> and NoneStr stand for an argument not given
SearchQueries == {<<>>, <<"b", "b">>, <<"v", "i", "p">>, <<"l", "i">>}
SearchStatuses == {NoneStr, "pending", "active"}
SearchTypeNames == {NoneStr, "Pro"}

\* text contains query as a substring, character for character
Contains(text, query) ==
    \E i \in 1..(Len(text) - Len(query) + 1) : SubSeq(text, i, i + Len(query) - 1) = query

\* the __icontains lookup: LIKE '%query%', which ignores case
icontains(text, query) ==
    Contains([i \in DOMAIN text |-> lower(text[i])], [i \in DOMAIN query |-> lower(query[i])])

\* key__icontains and user__username__icontains for each key and query the
\* model uses
KeyMatches ==
    [key \in SearchKeys |-> {query \in SearchQueries : icontains(KeyText(key), query)}]
UserMatches ==
    [key \in SearchKeys |-> {query \in SearchQueries : icontains(UserName(key), query)}]

\* a Q object, by the licenses it matches; Q() is empty and matches by absence
Q(rows) == [empty |-> FALSE, rows |-> rows]
EmptyQ == [empty |-> TRUE, rows |-> {}]
\* Q.__or__ and Q.__and__: an empty operand yields the other operand
QOr(a, b) == IF a.empty THEN b ELSE IF b.empty THEN a ELSE Q(a.rows \cup b.rows)
QAnd(a, b) == IF a.empty THEN b ELSE IF b.empty THEN a ELSE Q(a.rows \cap b.rows)
\* License.objects.filter(q)
QFilter(q) == IF q.empty THEN DOMAIN licenses ELSE q.rows

\* search_licenses() that adds the status filter with |= instead of &=
search_licenses_StatusOr(query, status, license_type, active_only) ==
    LET f0 == EmptyQ
        f1 == IF query # <<>>
              THEN QOr(QOr(f0, QOr(Q({k \in DOMAIN licenses : query \in KeyMatches[k]}),
                                   Q({k \in DOMAIN licenses : icontains(licenses[k].notes, query)}))),
                       Q({k \in DOMAIN licenses : query \in UserMatches[k]}))
              ELSE f0
        f2 == IF Truthy(status)
              THEN QOr(f1, Q({k \in DOMAIN licenses : licenses[k].status = status}))
              ELSE f1
        f3 == IF Truthy(license_type)
              THEN QAnd(f2, Q({k \in DOMAIN licenses : TypeName(licenses[k].license_type) = license_type}))
              ELSE f2
        f4 == IF active_only
              THEN QAnd(f3, Q({k \in DOMAIN licenses : licenses[k].status = "active"}))
              ELSE f3
    IN  QFilter(f4)

\* LicenseService.search_licenses: the licenses in the queryset it returns
search_licenses(query, status, license_type, active_only) ==
    LET f0 == EmptyQ
        f1 == IF query # <<>>
              THEN QOr(QOr(f0, QOr(Q({k \in DOMAIN licenses : query \in KeyMatches[k]}),
                                   Q({k \in DOMAIN licenses : icontains(licenses[k].notes, query)}))),
                       Q({k \in DOMAIN licenses : query \in UserMatches[k]}))
              ELSE f0
        f2 == IF Truthy(status)
              THEN QAnd(f1, Q({k \in DOMAIN licenses : licenses[k].status = status}))
              ELSE f1
        f3 == IF Truthy(license_type)
              THEN QAnd(f2, Q({k \in DOMAIN licenses : TypeName(licenses[k].license_type) = license_type}))
              ELSE f2
        f4 == IF active_only
              THEN QAnd(f3, Q({k \in DOMAIN licenses : licenses[k].status = "active"}))
              ELSE f3
    IN  QFilter(f4)

\* the record of a search_licenses call: its arguments and the keys of the
\* licenses it returned
SearchCall(query, status, license_type, active_only, found) ==
    [op |-> "search", query |-> query, status |-> status, license_type |-> license_type,
     active_only |-> active_only, found |-> found]

ServiceSearch(query, status, license_type, active_only) ==
    /\ call' = SearchCall(query, status, license_type, active_only,
                          search_licenses(query, status, license_type, active_only))
    /\ UNCHANGED <<licenses, checks, now, codec, procs>>

\* licenses are created, activated, deactivated and revoked, and searched
NextSearch ==
    \/ \E license_type_id \in LicenseTypeIds, key \in SearchKeys, notes \in SearchNotes :
            ServiceCreate(license_type_id, key, notes)
    \/ \E key \in SearchKeys : ServiceActivate(key, NoneStr)
    \/ \E key \in SearchKeys : ServiceDeactivate(key)
    \/ \E key \in SearchKeys : ServiceRevoke(key, NoneStr)
    \/ \E query \in SearchQueries, status \in SearchStatuses,
          license_type \in SearchTypeNames, active_only \in BOOLEAN :
            ServiceSearch(query, status, license_type, active_only)

SpecSearch == Init /\ [][NextSearch]_vars

\* ------------------------------------------------- concurrent Service calls
\* Each request runs one Service method in its own process; the methods open
\* no transaction and take no lock, so between License.objects.get and the
\* entity method's save() another request's steps can run. procs[p] is the
\* request process p serves: the object it loaded and, once done, its result.
ConcOps == {"activate", "validate", "revoke"}

\* the process returned a result without calling an entity method
Returned(p, message) ==
    procs' = [procs EXCEPT ![p].pc = "done", ![p].success = FALSE, ![p].message = message]

\* License.objects.get(key=key) at the top of activate_license, validate_license
\* (after its format check) and revoke_license
ConcLoad(p, op, key, hardware_id) ==
    /\ procs[p].pc = "idle"
    /\ LET me == [Idle EXCEPT !.op = op, !.key = key, !.hardware_id = hardware_id]
       IN  procs' = [procs EXCEPT ![p] =
               IF op = "validate" /\ ~KeyFormatValid[key]
               THEN [me EXCEPT !.pc = "done", !.message = <<"Invalid license key format">>]
               ELSE IF ~Exists(key)
               THEN [me EXCEPT !.pc = "done", !.message = <<"License key does not exist">>]
               ELSE [me EXCEPT !.pc = "loaded", !.obj = licenses[key],
                               !.nchecks = Len(checks[key])]]
    /\ UNCHANGED <<licenses, checks, now, call, codec>>

\* the rest of activate_license, on the object the process loaded
ConcActivate(p) ==
    /\ procs[p].pc = "loaded" /\ procs[p].op = "activate"
    /\ LET me == procs[p]
       IN  IF me.obj.status = "active"
           THEN Returned(p, <<"License is already active">>) /\ UNCHANGED <<licenses, checks>>
           ELSE IF me.obj.status = "revoked"
           THEN /\ Returned(p, <<"License has been revoked and cannot be activated">>)
                /\ UNCHANGED <<licenses, checks>>
           ELSE IF me.obj.status = "expired"
           THEN /\ Returned(p, <<"License has expired and cannot be activated">>)
                /\ UNCHANGED <<licenses, checks>>
           ELSE LET o == activate(me.obj, me.hardware_id, now)
                IN  /\ Store(me.key, o)
                    /\ procs' = [procs EXCEPT ![p].pc = "done",
                                   ![p].success = o.ret,
                                   ![p].message = IF o.ret THEN <<"License activated successfully">>
                                                  ELSE <<"Failed to activate license">>]
    /\ UNCHANGED <<now, call, codec>>

\* the rest of validate_license, on the object the process loaded
ConcValidate(p) ==
    /\ procs[p].pc = "loaded" /\ procs[p].op = "validate"
    /\ LET me == procs[p]
           o == validate_license(me.obj, me.hardware_id, now)
       IN  /\ Store(me.key, o)
           /\ procs' = [procs EXCEPT ![p].pc = "done",
                          ![p].success = o.ret,
                          ![p].message = IF o.ret THEN <<"License is valid">>
                                         ELSE <<"License check failed: ", o.self.status>>]
    /\ UNCHANGED <<now, call, codec>>

\* the rest of revoke_license (no reason given), on the object the process loaded
ConcRevoke(p) ==
    /\ procs[p].pc = "loaded" /\ procs[p].op = "revoke"
    /\ LET me == procs[p]
       IN  IF me.obj.status = "revoked"
           THEN Returned(p, <<"License is already revoked">>) /\ UNCHANGED <<licenses, checks>>
           ELSE LET o == revoke(me.obj, now)
                IN  /\ Store(me.key, o)
                    /\ procs' = [procs EXCEPT ![p].pc = "done",
                                   ![p].success = TRUE,
                                   ![p].message = <<"License revoked successfully">>]
    /\ UNCHANGED <<now, call, codec>>

\* create_license is one INSERT; it runs between the steps of the others
ConcCreate(license_type_id, key, notes) ==
    /\ license_type_id \in StoredTypeIds /\ ~Exists(key)
    /\ licenses' = (key :> NewLicense(key, license_type_id, 1, notes, now)) @@ licenses
    /\ checks' = (key :> <<>>) @@ checks
    /\ UNCHANGED <<now, call, codec, procs>>

NextConc ==
    \/ Tick
    \/ \E license_type_id \in LicenseTypeIds, key \in Keys, notes \in NotesArgs :
            ConcCreate(license_type_id, key, notes)
    \/ \E p \in Procs, op \in ConcOps, key \in Keys, hardware_id \in HardwareIds :
            ConcLoad(p, op, key, hardware_id)
    \/ \E p \in Procs : ConcActivate(p)
    \/ \E p \in Procs : ConcValidate(p)
    \/ \E p \in Procs : ConcRevoke(p)

SpecConc == Init /\ [][NextConc]_vars

\* ------------------------------------------------------------ key codec calls
MaxPrefixLen == 6
MaxRun == 16

\* characters callers put in a prefix
PrefixChars == {"P", "x", "_"}
\* characters callers put in a key string handed to validate_license_key_format
CodecChars == {"A", "b", "7", "-", "_", "KELVIN", "LONG_S"}

\* the record of a codec call: the key string it is about and what
\* validate_license_key_format answers for it, for it without dashes
\* (key.replace('-', '')), upper-cased (key.upper()) and lower-cased (key.lower())
CodecCall(op, prefix, key) ==
    [op |-> op, prefix |-> prefix, key |-> key,
     valid |-> validate_license_key_format(key),
     valid_nodash |-> validate_license_key_format(SelectSeq(key, LAMBDA c : c # "-")),
     valid_upper |-> validate_license_key_format([i \in DOMAIN key |-> upper(key[i])]),
     valid_lower |-> validate_license_key_format([i \in DOMAIN key |-> lower(key[i])])]

\* the arguments of a codec call that has not run yet
CodecArgs(op, prefix, key) ==
    [op |-> op, prefix |-> prefix, key |-> key,
     valid |-> FALSE, valid_nodash |-> FALSE, valid_upper |-> FALSE, valid_lower |-> FALSE]

\* the prefixes callers pass to generate_license_key
Prefixes == UNION {[1..n -> PrefixChars] : n \in 0..MaxPrefixLen}

\* the strings callers pass to validate_license_key_format: two runs of characters
KeyStrings ==
    {Rep(c1, n1) \o Rep(c2, n2) : c1 \in CodecChars, c2 \in CodecChars, n1 \in 0..MaxRun, n2 \in 0..MaxRun}

\* an empty store and one codec call about to run
InitCodec ==
    /\ licenses = <<>>
    /\ checks = <<>>
    /\ now = 0
    /\ call = NoCall
    /\ procs = [p \in Procs |-> Idle]
    /\ \/ \E prefix \in Prefixes, key_b64 \in B32Digests :
              codec = CodecArgs("call generate", prefix, key_b64)
       \/ \E key \in KeyStrings :
              codec = CodecArgs("call validate_format", <<>>, key)

\* generate_license_key(prefix=prefix), the digest encoding being key_b64
CodecGenerate(prefix, key_b64) ==
    /\ codec.op = "call generate"
    /\ codec' = CodecCall("generate", prefix, generate_license_key(prefix, key_b64))
    /\ UNCHANGED <<licenses, checks, now, call, procs>>

\* validate_license_key_format(key) on a string a caller typed
CodecValidate(key) ==
    /\ codec.op = "call validate_format"
    /\ codec' = CodecCall("validate_format", <<>>, key)
    /\ UNCHANGED <<licenses, checks, now, call, procs>>

NextCodec ==
    \/ CodecGenerate(codec.prefix, codec.key)
    \/ CodecValidate(codec.key)

SpecCodec == InitCodec /\ [][NextCodec]_vars

Next ==
    \/ Tick
    \/ \E key \in Keys, hardware_id \in HardwareIds : EntityActivate(key, hardware_id)
    \/ \E key \in Keys : EntityDeactivate(key)
    \/ \E key \in Keys : EntityRevoke(key)
    \/ \E key \in Keys, hardware_id \in HardwareIds : EntityValidate(key, hardware_id)
    \/ \E license_type_id \in TypeIdArgs, key \in Keys, notes \in NotesArgs :
            ServiceCreate(license_type_id, key, notes)
    \/ \E key \in KeyArgs, hardware_id \in HardwareIds : ServiceValidate(key, hardware_id)
    \/ \E key \in Keys, hardware_id \in HardwareIds : ServiceActivate(key, hardware_id)
    \/ \E key \in Keys : ServiceDeactivate(key)
    \/ \E key \in Keys, reason \in Reasons : ServiceRevoke(key, reason)
    \/ \E key \in Keys : ServiceInfo(key)

Spec == Init /\ [][Next]_vars
\* ================================================================ claims
Last(seq) == seq[Len(seq)]
Range(seq) == {seq[i] : i \in DOMAIN seq}

\* the call that just returned was made on a stored license
OnLicense == call.op # "none" /\ call.before # NoLicense
\* the license the call was made on, and its audit rows, as stored now
Row == licenses[call.key]
Rows == checks[call.key]
Appended == Len(Rows) - call.nchecks
\* the loaded license was past its expiry date at the call
PastExpiry == call.before.expires_at # None /\ call.before.expires_at < now
\* the call presented a hardware id different from the one bound
OtherHardware ==
    /\ Truthy(call.before.hardware_id) /\ Truthy(call.hardware_id)
    /\ call.hardware_id # call.before.hardware_id

\* C1: once a license's stored status is 'revoked' it is 'revoked' in every
\* later state, whatever operations run and however the clock advances.
C1_RevokedAbsorbing ==
    [][\A k \in DOMAIN licenses :
          licenses[k].status = "revoked" => licenses'[k].status = "revoked"]_vars

\* C2: entity activate fails exactly when the status is 'revoked' at the call,
\* and then changes neither the license nor its audit rows; Service activate on
\* a revoked license returns success=false with the revocation message.
C2_ActivateFailsIffRevoked ==
    /\ (OnLicense /\ call.op = "entity_activate") =>
          /\ ~call.success <=> call.before.status = "revoked"
          /\ ~call.success => Row = call.before /\ Appended = 0
    /\ (OnLicense /\ call.op = "activate" /\ call.before.status = "revoked") =>
          /\ ~call.success
          /\ call.message = <<"License has been revoked and cannot be activated">>
          /\ Row = call.before /\ Appended = 0

\* create, revoke, then Service activate: refused, status still 'revoked'
C2_Witness ==
    /\ OnLicense /\ call.op = "activate" /\ ~call.success
    /\ call.before.status = "revoked" /\ Row.status = "revoked"
    /\ Rows = <<LicenseCheck("revoked", <<>>, NoneStr, now)>>

\* C3 as stated: whichever operation loads and saves a license whose
\* expires_at is in the past, the stored status afterwards is 'expired'.
C3_AnySaveExpires ==
    (OnLicense /\ call.saved /\ PastExpiry) => Row.status = "expired"

\* C3 amended: a deactivate or validate that saves a license past its expiry
\* leaves it 'expired'; an activate that saves it recomputes expires_at from
\* the time of the call and leaves it 'active'; a revoke leaves it 'revoked'.
C3_SaveExpiresUnlessActivateOrRevoke ==
    (OnLicense /\ call.saved /\ PastExpiry) =>
        /\ call.op \in {"entity_deactivate", "deactivate", "entity_validate", "validate"}
              => Row.status = "expired"
        /\ call.op \in {"entity_activate", "activate"}
              => /\ Row.status = "active"
                 /\ Row.expires_at = now + duration_days(Row.license_type)
        /\ call.op \in {"entity_revoke", "revoke"} => Row.status = "revoked"

\* an active license past its expiry is deactivated and stored as 'expired'
C3_Witness ==
    /\ OnLicense /\ call.op = "deactivate" /\ call.saved /\ PastExpiry
    /\ call.before.status = "active" /\ Row.status = "expired"

\* C4 as stated: once set, activation_date never changes.
C4_ActivationDateSetOnce ==
    [][\A k \in DOMAIN licenses :
          licenses[k].activation_date # None
              => licenses'[k].activation_date = licenses[k].activation_date]_vars

\* C4 amended: every successful activate sets activation_date to the time of
\* that call; every other call on the license leaves activation_date as it was.
C4_ActivationDateIsLastActivation ==
    OnLicense =>
        IF call.op \in {"entity_activate", "activate"} /\ call.success
        THEN Row.activation_date = now
        ELSE Row.activation_date = call.before.activation_date

\* a license activated before is activated again at a later time
C4_Witness ==
    /\ OnLicense /\ call.op \in {"entity_activate", "activate"} /\ call.success
    /\ call.before.activation_date # None
    /\ call.before.activation_date # now

\* C5: a successful activate with a non-empty hardware id different from the
\* non-empty one already bound leaves hardware_id as it was.
C5_ActivateKeepsBinding ==
    (OnLicense /\ call.op \in {"entity_activate", "activate"} /\ call.success /\ OtherHardware)
        => Row.hardware_id = call.before.hardware_id

\* C6: entity validate on an active, unexpired license with another hardware
\* id returns false, appends one 'check_failed' row with message 'Hardware ID
\* mismatch' and leaves hardware_id as it was.
C6_ValidateMismatchFails ==
    (OnLicense /\ call.op = "entity_validate" /\ call.before.status = "active"
       /\ ~PastExpiry /\ OtherHardware)
        => /\ ~call.success
           /\ Appended = 1
           /\ Last(Rows).status = "check_failed"
           /\ Last(Rows).message = <<"Hardware ID mismatch">>
           /\ Row.hardware_id = call.before.hardware_id

C6_Witness ==
    /\ OnLicense /\ call.op = "entity_validate" /\ call.before.status = "active"
    /\ ~PastExpiry /\ OtherHardware
    /\ call.before.hardware_id = "abc123" /\ call.hardware_id = "xyz789"

\* C7: Service validate on an active, unexpired license with another hardware
\* id returns valid=false and a message that states the hardware mismatch.
C7_ServiceValidateMismatchMessage ==
    (OnLicense /\ call.op = "validate" /\ call.before.status = "active"
       /\ ~PastExpiry /\ OtherHardware)
        => /\ ~call.success
           /\ "Hardware ID mismatch" \in Range(call.message)

\* C8: expires_at is activation_date + duration_days once activated, and
\* creation time + duration_days for a license never activated.
C8_ExpiresAtFormula ==
    \A k \in DOMAIN licenses :
        /\ licenses[k].activation_date # None
              => licenses[k].expires_at
                     = licenses[k].activation_date + duration_days(licenses[k].license_type)
        /\ licenses[k].activation_date = None
              => licenses[k].expires_at
                     = licenses[k].created_at + duration_days(licenses[k].license_type)

\* a license activated at a time later than its creation
C8_Witness ==
    \E k \in DOMAIN licenses :
        /\ licenses[k].activation_date # None
        /\ licenses[k].activation_date > licenses[k].created_at

\* C9: every entity validate call leaves the stored last_checked equal to the
\* time of the call.
C9_ValidateStoresLastChecked ==
    (OnLicense /\ call.op = "entity_validate") => Row.last_checked = now

\* C10: successful entity activate, deactivate, revoke and every entity
\* validate append exactly one row of the matching status; failed activate and
\* deactivate append none; a call that appends no row changes no stored field.
C10_AuditRowPerOperation ==
    OnLicense =>
        /\ (call.op = "entity_activate" /\ call.success)
              => Appended = 1 /\ Last(Rows).status = "activated"
        /\ (call.op = "entity_deactivate" /\ call.success)
              => Appended = 1 /\ Last(Rows).status = "deactivated"
        /\ call.op = "entity_revoke"
              => call.success /\ Appended = 1 /\ Last(Rows).status = "revoked"
        /\ call.op = "entity_validate"
              => /\ Appended = 1
                 /\ Last(Rows).status = IF call.success THEN "check_success" ELSE "check_failed"
        /\ (call.op \in {"entity_activate", "entity_deactivate"} /\ ~call.success)
              => Appended = 0
        /\ Appended = 0 => Row = call.before

\* a successful entity deactivate and its 'deactivated' row
C10_Witness ==
    /\ OnLicense /\ call.op = "entity_deactivate" /\ call.success
    /\ Last(Rows).status = "deactivated" /\ Row.status = "pending"
IsPrefix(a, b) == Len(a) <= Len(b) /\ \A i \in DOMAIN a : a[i] = b[i]

C12_DeactivateLeavesPending ==
    (OnLicense /\ call.op \in {"entity_deactivate", "deactivate"} /\ call.success)
        => Row.status = "pending"

\* C12 amended: after a deactivate that reports success the stored status is
\* 'pending' if expires_at is not in the past at the call, and 'expired' if it is.
C12_DeactivateLeavesPendingOrExpired ==
    (OnLicense /\ call.op \in {"entity_deactivate", "deactivate"} /\ call.success)
        => /\ call.before.status = "active"
           /\ Row.status = IF PastExpiry THEN "expired" ELSE "pending"

\* an entity deactivate of an active license past its expiry reports success
C12_Witness ==
    /\ OnLicense /\ call.op = "entity_deactivate" /\ call.success
    /\ PastExpiry /\ Row.status = "expired"

\* C13: a Service activate, deactivate or revoke that returns success=false
\* leaves every stored field of the license and its audit rows as they were
\* (and creates no license for an unknown key).
C13_ServiceFailureChangesNothing ==
    (call.op \in {"activate", "deactivate", "revoke"} /\ ~call.success)
        => /\ ~call.saved
           /\ IF call.before = NoLicense
              THEN ~Exists(call.key)
              ELSE Row = call.before /\ Appended = 0

\* Service activate refused on an expired license that already has audit rows
C13_Witness ==
    /\ OnLicense /\ call.op = "activate" /\ ~call.success
    /\ call.before.status = "expired" /\ Len(Rows) > 0
    /\ call.message = <<"License has expired and cannot be activated">>

\* C14: on a license already revoked, entity revoke returns true, leaves the
\* status 'revoked' and appends another 'revoked' row; Service revoke returns
\* success=false with the 'already revoked' message and appends nothing.
C14_RevokeTwoLayers ==
    (OnLicense /\ call.before.status = "revoked") =>
        /\ call.op = "entity_revoke"
              => /\ call.success
                 /\ Row.status = "revoked"
                 /\ Appended = 1 /\ Last(Rows).status = "revoked"
        /\ call.op = "revoke"
              => /\ ~call.success
                 /\ call.message = <<"License is already revoked">>
                 /\ Row = call.before /\ Appended = 0

\* entity revoke twice: two 'revoked' rows
C14_Witness ==
    /\ OnLicense /\ call.op = "entity_revoke" /\ call.before.status = "revoked"
    /\ Len(Rows) = 2 /\ Rows[1].status = "revoked" /\ Rows[2].status = "revoked"
ServiceOps == {"create", "validate", "activate", "deactivate", "revoke"}

\* C15: a Service call that returned a failure, made again with the same
\* arguments before the clock moves, returns the same failure.
C15_DoubleFailureSameResult ==
    [][(/\ call.op \in ServiceOps /\ ~call.success
        /\ call'.op = call.op /\ call'.key = call.key
        /\ call'.hardware_id = call.hardware_id /\ call'.reason = call.reason)
       => /\ call'.success = call.success
          /\ call'.message = call.message
          /\ call'.raised = call.raised]_vars

\* a failed Service validate made right after a failed validate with the same
\* hardware id on the same, unchanged license
C15_Witness ==
    /\ OnLicense /\ call.op = "validate" /\ ~call.success
    /\ call.nchecks = 1 /\ Len(Rows) = 2 /\ Rows[1] = Rows[2]
    /\ call.before.last_checked = now

\* the call looked up a license key that no license has
UnknownKey ==
    /\ call.op \in {"validate", "activate", "deactivate", "revoke", "info"}
    /\ call.before = NoLicense
    /\ call.op = "validate" => KeyFormatValid[call.key]
\* create_license was given a license type id that does not resolve (no key
\* was generated)
UnknownType == call.op = "create" /\ call.key = NoneStr

\* C16 as stated: an unknown key or license type id gives a failure result,
\* never a raised exception, in every Service operation, create included.
C16_NotFoundNeverRaised ==
    (UnknownKey \/ UnknownType) => ~call.raised /\ ~call.success

\* C16 amended: an unknown key gives the result success/valid=false with
\* 'License key does not exist' in validate, activate, deactivate, revoke and
\* info; create with an unknown license type id raises ValueError and creates
\* no License.
C16_NotFoundResultExceptCreate ==
    [][/\ UnknownKey' => /\ ~call'.raised /\ ~call'.success
                         /\ call'.message = <<"License key does not exist">>
                         /\ UNCHANGED <<licenses, checks>>
       /\ UnknownType' => /\ call'.raised /\ ~call'.success
                          /\ call'.message[1] = "License type with ID "
                          /\ UNCHANGED <<licenses, checks>>]_vars

\* create_license raised for license type id 3 and the table is still empty
C16_Witness ==
    /\ UnknownType /\ call.raised /\ licenses = <<>>
\* C17: validate_license_key_format accepts every key generate_license_key
\* returns, whatever the prefix.
C17_GeneratedKeyIsValid ==
    codec.op = "generate" => codec.valid

\* C18: validate_license_key_format gives the same answer for a key string,
\* for it without dashes, for it upper-cased and for it lower-cased.
C18_FormatInvariantUnderDashCase ==
    codec.op \in {"generate", "validate_format"} =>
        /\ codec.valid_nodash = codec.valid
        /\ codec.valid_upper = codec.valid
        /\ codec.valid_lower = codec.valid
\* C19: Service validate with a key validate_license_key_format rejects returns
\* valid=false with the invalid-format message and touches no storage: a
\* stored license with exactly that key keeps every field (last_checked
\* included) and gains no audit row.
C19_BadFormatTouchesNothing ==
    (call.op = "validate" /\ ~KeyFormatValid[call.key]) =>
        /\ ~call.success /\ ~call.raised /\ ~call.saved
        /\ call.message = <<"Invalid license key format">>
        /\ IF call.before = NoLicense
           THEN ~Exists(call.key)
           ELSE Row = call.before /\ Appended = 0

\* Service validate refused for its format on the key of a stored, active,
\* bound license, with the bound hardware id
C19_Witness ==
    /\ OnLicense /\ call.op = "validate" /\ ~KeyFormatValid[call.key]
    /\ call.before.status = "active"
    /\ Truthy(call.hardware_id) /\ call.hardware_id = call.before.hardware_id
    /\ call.message = <<"Invalid license key format">>
\* C20: when two Service activate calls on the same pending license
\* interleave, at most one of them returns success and the audit log gains
\* exactly one 'activated' row.
C20_OneActivateWins ==
    \A p \in Procs, q \in Procs :
        (/\ p # q
         /\ procs[p].pc = "done" /\ procs[p].op = "activate"
         /\ procs[q].pc = "done" /\ procs[q].op = "activate"
         /\ procs[p].key = procs[q].key
         /\ procs[p].obj.status = "pending" /\ procs[q].obj.status = "pending"
         /\ procs[p].nchecks = procs[q].nchecks)
        => /\ ~(procs[p].success /\ procs[q].success)
           /\ Cardinality({i \in DOMAIN checks[procs[p].key] :
                              checks[procs[p].key][i].status = "activated"}) = 1
C22_KeyUniqueImmutable ==
    /\ \A k \in DOMAIN licenses : licenses[k].key = k
    /\ (call.op = "create" /\ call.before # NoLicense)
          => /\ ~call.success /\ call.raised /\ ~call.saved
             /\ Row = call.before /\ Appended = 0

\* create refused for a key that an activated license already has
C22_Witness ==
    /\ call.op = "create" /\ call.before # NoLicense /\ call.raised
    /\ call.before.status = "active" /\ Len(Rows) > 0
    /\ Row.key = call.key
\* C23: every license a successful Service create returns is stored with
\* status 'pending', no hardware_id, no activation_date, no last_checked and
\* no audit rows, and references the requested license type.
C23_CreatedPendingUnbound ==
    [][\A license_type_id \in TypeIdArgs, key \in Keys, notes \in NotesArgs :
           (call'.op = "create" /\ call'.success /\ ServiceCreate(license_type_id, key, notes))
               => /\ key \in DOMAIN licenses'
                  /\ licenses'[key].status = "pending"
                  /\ licenses'[key].hardware_id = NoneStr
                  /\ licenses'[key].activation_date = None
                  /\ licenses'[key].last_checked = None
                  /\ licenses'[key].license_type = license_type_id
                  /\ checks'[key] = <<>>]_vars

\* a license of the second type just created, later than time 0
C23_Witness ==
    /\ call.op = "create" /\ call.success /\ now > 0
    /\ Row.status = "pending" /\ Row.license_type = 2 /\ Rows = <<>>
\* the characters of the keys the searched licenses have
SearchKeyText == [key \in SearchKeys |-> KeyText(key)]

\* license k satisfies every filter of the search that just returned; in(_, _)
\* says when a text contains the query
Wanted(k, in(_, _)) ==
    /\ Truthy(call.status) => licenses[k].status = call.status
    /\ Truthy(call.license_type) => TypeName(licenses[k].license_type) = call.license_type
    /\ call.active_only => licenses[k].status = "active"
    /\ call.query # <<>>
          => \/ in(SearchKeyText[k], call.query)
             \/ in(licenses[k].notes, call.query)
             \/ in(UserName(k), call.query)

\* C24 as stated: Service search returns exactly the licenses that satisfy
\* every supplied filter and, when a query is supplied, whose key, notes or
\* owner's user name contains the query.
C24_SearchExactSubstring ==
    call.op = "search" => call.found = {k \in DOMAIN licenses : Wanted(k, Contains)}

\* C24, amended: the same, the query being matched without regard to case.
C24_SearchIgnoringCase ==
    call.op = "search" => call.found = {k \in DOMAIN licenses : Wanted(k, icontains)}

\* a search with a query and a status filter over two stored licenses that
\* returns one of them, matched through its notes in another case
C24_Witness ==
    /\ call.op = "search" /\ DOMAIN licenses = SearchKeys
    /\ call.query = <<"v", "i", "p">> /\ Truthy(call.status)
    /\ licenses["K1"].notes = <<"V", "I", "P">> /\ licenses["K2"].notes = <<"V", "I", "P">>
    /\ call.found = {"K2"}
\* C25: Service info changes nothing: the license it reads keeps every stored
\* field, also when its expires_at is in the past, and its audit rows; it
\* returns success=false with the not-found message exactly when no license
\* has the key.
C25_InfoReadOnly ==
    call.op = "info" =>
        /\ ~call.saved /\ ~call.raised
        /\ call.success <=> call.before # NoLicense
        /\ ~call.success => call.message = <<"License key does not exist">>
        /\ IF call.before = NoLicense
           THEN ~Exists(call.key)
           ELSE Row = call.before /\ Appended = 0

\* Service info on a license stored 'active' whose expiry date has passed
C25_Witness ==
    /\ OnLicense /\ call.op = "info" /\ call.success
    /\ PastExpiry /\ call.before.status = "active" /\ Row.status = "active"
\* C26: entity validate returns true exactly when, at the call, expires_at is
\* unset or not in the past, the status is 'active', and the bound hardware id
\* is unset or the presented one is empty or equal to it; every
\* 'check_success' row is appended by a validate made in such a state.
C26_ValidateTrueIff ==
    OnLicense =>
        /\ call.op = "entity_validate"
              => (call.success
                     <=> (~PastExpiry /\ call.before.status = "active" /\ ~OtherHardware))
        /\ (Appended > 0 /\ Last(Rows).status = "check_success")
              => /\ call.op \in {"entity_validate", "validate"}
                 /\ ~PastExpiry /\ call.before.status = "active" /\ ~OtherHardware

\* entity validate succeeding on a bound license with the bound hardware id,
\* at the very time of its expiry date
C26_Witness ==
    /\ OnLicense /\ call.op = "entity_validate" /\ call.success
    /\ call.before.expires_at = now
    /\ Truthy(call.hardware_id) /\ call.hardware_id = call.before.hardware_id
    /\ Last(Rows).status = "check_success"
\* C27: immediately after every write of a license the stored row does not
\* have expires_at earlier than the time of the write together with status
\* 'pending' or 'active' (expires_at is always set by then); and the write
\* leaves a status of 'revoked' as it is.
C27_WriteNormalizes ==
    call.op = "save" =>
        /\ ~(Row.expires_at < now /\ Row.status \in {"pending", "active"})
        /\ Row.expires_at # None
        /\ call.before.status = "revoked" => Row.status = "revoked"

\* the write of an active object whose expires_at was unset and whose
\* activation lies more than its duration back: stored 'expired'
C27_Witness ==
    /\ call.op = "save" /\ call.before.status = "active"
    /\ call.before.expires_at = None /\ call.before.activation_date # None
    /\ Row.expires_at < now /\ Row.status = "expired"
\* C28: with Service operations only, a license stored 'expired' is never
\* 'active' or 'pending' in a later state; the only other status it can take
\* is 'revoked'. (A step leaves the set {'expired', 'revoked'} closed, and
\* from 'expired' the next status is 'expired' or 'revoked'.)
C28_ExpiredNeverRevives ==
    [][\A k \in DOMAIN licenses :
          licenses[k].status \in {"expired", "revoked"}
              => /\ k \in DOMAIN licenses'
                 /\ licenses'[k].status \in {"expired", "revoked"}]_vars

\* Service activate refused on a license stored 'expired' that was active
\* before it expired
C28_Witness ==
    /\ OnLicense /\ call.op = "activate" /\ ~call.success
    /\ call.before.status = "expired" /\ call.before.activation_date # None
    /\ Row.status = "expired"
\* C29: a Service revoke that returned success is not undone by a concurrent
\* Service activate or validate on the same license that loaded the record
\* before the revoke was written and writes after it: once both have
\* returned, the stored status is 'revoked'.
C29_RevokeNotUndone ==
    \A p \in Procs, q \in Procs :
        (/\ p # q
         /\ procs[p].pc = "done" /\ procs[p].op = "revoke" /\ procs[p].success
         /\ procs[q].pc = "done" /\ procs[q].op \in {"activate", "validate"}
         /\ procs[q].key = procs[p].key
         /\ procs[q].obj.status # "revoked"
         /\ Last(checks[procs[p].key]).status # "revoked")
        => licenses[procs[p].key].status = "revoked"
\* C30: once a license's hardware_id is non-empty it is non-empty in every
\* later state: no operation clears a binding.
C30_BindingNeverCleared ==
    [][\A k \in DOMAIN licenses :
          Truthy(licenses[k].hardware_id)
              => k \in DOMAIN licenses' /\ Truthy(licenses'[k].hardware_id)]_vars

\* entity activate without a hardware id on a license that is bound
C30_Witness ==
    /\ OnLicense /\ call.op = "entity_activate" /\ call.success
    /\ ~Truthy(call.hardware_id) /\ Truthy(call.before.hardware_id)
    /\ Row.hardware_id = call.before.hardware_id
\* C31: a successful entity or Service deactivate changes only the status:
\* key, hardware_id, activation_date, expires_at, last_checked, notes and
\* max_activations (and license_type, created_at) are as before the call.
C31_DeactivateChangesOnlyStatus ==
    (OnLicense /\ call.op \in {"entity_deactivate", "deactivate"} /\ call.success)
        => /\ Row.status # call.before.status
           /\ [Row EXCEPT !.status = call.before.status] = call.before

\* a successful Service deactivate of a bound license whose expiry date has
\* passed: stored 'expired', everything else kept
C31_Witness ==
    /\ OnLicense /\ call.op = "deactivate" /\ call.success
    /\ Truthy(call.before.hardware_id) /\ PastExpiry
    /\ Row.status = "expired" /\ Row.hardware_id = call.before.hardware_id
    /\ Row.expires_at = call.before.expires_at
====
